---- MODULE Spec2Model ----
(***************************************************************************)
(* The admission / notice / admin core of the school website (src/app.py): *)
(* the three tables, the WTForms validators, the cookie session of         *)
(* Flask-Login, the request handlers and the create-admin CLI command.     *)
(*                                                                         *)
(* Text is a sequence of one-character strings, so that strip(), int(),    *)
(* len() and the email pattern are computed and not assumed.  An optional  *)
(* value (Python's None) is a sequence of length at most one: None is      *)
(* << >> and a present value v is << v >>.                                   *)
(***************************************************************************)
EXTENDS Integers, Sequences, FiniteSets, TLC

(* ------------------------------ bounds -------------------------------- *)

\* The wall clock (datetime.utcnow) is read as a value of 0..MaxClock.
MaxClock ==
    1

\* Rows of Admission and of Notice the full specification lets be inserted.
MaxRows ==
    2

\* Rows of Admission and of Notice the session specification lets be inserted.
MaxSessionRows ==
    1

\* Rows of Notice the notice specification lets be inserted.
MaxNoticeRows ==
    2

\* Rows of Admission the form-validation specification lets be inserted.
MaxFormRows ==
    1

\* Browsers (cookie jars) making requests.
NumClients ==
    2

\* Concurrent invocations of the create-admin command.
NumProcs ==
    2

\* Rows the listing specification lets be inserted: one more than the home
\* page's limit, for the limit to cut.
MaxListedNotices ==
    6

MaxListedAdmissions ==
    3

\* Session cookies login may sign where one session is all that is needed.
MaxFewLogins ==
    1

\* Session cookies login may sign in the session specification.
MaxLogins ==
    2

(* ------------------------- program constants -------------------------- *)

\* Notice.query...limit(5) in index()
HomeLimit ==
    5

\* Admission.query...limit(50) in admin_dashboard()
DashboardLimit ==
    50

\* Length(max=200) on student_name
NameMax ==
    200

\* Length(max=150) on parent_email
EmailMax ==
    150

\* Length(max=50) on phone
PhoneMax ==
    50

(* ------------------------------- text --------------------------------- *)

None ==
    << >>

Some(v) ==
    << v >>

Rep(ch, n) ==
    [i \in 1..n |-> ch]

IsSpace(ch) ==
    ch \in {" ", "\t", "\n"}

RECURSIVE LStrip(_)
LStrip(s) ==
    IF s # << >> /\ IsSpace(Head(s)) THEN LStrip(Tail(s)) ELSE s

RECURSIVE RStrip(_)
RStrip(s) ==
    IF s # << >> /\ IsSpace(s[Len(s)]) THEN RStrip(SubSeq(s, 1, Len(s) - 1)) ELSE s

\* Python's str.strip()
Strip(s) ==
    RStrip(LStrip(s))

Digits ==
    <<"0", "1", "2", "3", "4", "5", "6", "7", "8", "9">>

IsDigit(ch) ==
    \E d \in 1..10 : Digits[d] = ch

DigitVal(ch) ==
    (CHOOSE d \in 1..10 : Digits[d] = ch) - 1

RECURSIVE DigitsVal(_)
DigitsVal(s) ==
    IF s = << >> THEN 0
    ELSE 10 * DigitsVal(SubSeq(s, 1, Len(s) - 1)) + DigitVal(s[Len(s)])

\* Python's int(text): surrounding whitespace, an optional sign, then digits.
\* None stands for ValueError.
ParseInt(s) ==
    LET t == Strip(s)
        signed == t # << >> /\ Head(t) \in {"+", "-"}
        body == IF signed THEN Tail(t) ELSE t
    IN  IF body = << >> \/ \E i \in 1..Len(body) : ~IsDigit(body[i])
        THEN None
        ELSE Some(IF signed /\ Head(t) = "-" THEN 0 - DigitsVal(body) ELSE DigitsVal(body))

\* Python's str(n) of a non-negative integer
RECURSIVE IntToText(_)
IntToText(n) ==
    IF n < 10 THEN << Digits[n + 1] >>
    ELSE Append(IntToText(n \div 10), Digits[(n % 10) + 1])

\* The email address pattern of the Email() validator: one "@", a non-empty
\* local part, a domain of at least two non-empty labels, no whitespace.
EmailMatches(s) ==
    LET ats == {i \in 1..Len(s) : s[i] = "@"}
    IN  /\ Cardinality(ats) = 1
        /\ \A i \in 1..Len(s) : ~IsSpace(s[i])
        /\ LET at == CHOOSE i \in ats : TRUE
               dom == SubSeq(s, at + 1, Len(s))
           IN  /\ at > 1
               /\ dom # << >>
               /\ \E i \in 1..Len(dom) : dom[i] = "."
               /\ Head(dom) # "."
               /\ dom[Len(dom)] # "."
               /\ \A i \in 1..(Len(dom) - 1) : ~(dom[i] = "." /\ dom[i + 1] = ".")

(* --------------------------- form fields ------------------------------ *)

\* A submitted form is a function from the names of the fields the request
\* carries to their text.

\* StringField.process_formdata: the text of the field, None when absent
StringFieldData(form, name) ==
    IF name \in DOMAIN form THEN Some(form[name]) ELSE None

\* IntegerField.process_formdata: int() of the text, None when the field is
\* absent or int() raises ValueError
IntegerFieldData(form, name) ==
    IF name \in DOMAIN form THEN ParseInt(form[name]) ELSE None

Required ==
    "This field is required."

\* DataRequired() on a StringField: the data is truthy and, being a str,
\* has a non-empty strip()
DataRequiredStr(data) ==
    IF data # None /\ data[1] # << >> /\ Strip(data[1]) # << >> THEN {} ELSE {Required}

\* DataRequired() on an IntegerField: the data is truthy, and the int 0 is not
DataRequiredInt(data) ==
    IF data # None /\ data[1] # 0 THEN {} ELSE {Required}

\* Length(max=n): len(data) <= n, the length of None being 0
LengthMax(data, n) ==
    IF data = None \/ Len(data[1]) <= n THEN {} ELSE {"Field too long."}

\* An Email() that lets an absent or empty value pass, as Optional() would
EmailValidOrEmpty(data) ==
    IF data = None \/ data[1] = << >> \/ EmailMatches(data[1])
    THEN {} ELSE {"Invalid email address."}

\* Email(): None and every text outside the pattern are rejected
EmailValid(data) ==
    IF data # None /\ EmailMatches(data[1]) THEN {} ELSE {"Invalid email address."}

\* A validator chain: DataRequired stops the chain of its field (StopValidation),
\* the other validators all run.
Chain(first, rest) ==
    IF first # {} THEN first ELSE rest

Errs(field, msgs) ==
    {<<field, m>> : m \in msgs}

\* FlaskForm's CSRF field: the POST must carry the token the form was
\* rendered with.
CsrfErrors(csrf) ==
    IF csrf THEN {} ELSE {<<"csrf_token", "The CSRF token is missing.">>}

AdmissionFormData(form) ==
    [student_name  |-> StringFieldData(form, "student_name"),
     student_class |-> StringFieldData(form, "student_class"),
     age           |-> IntegerFieldData(form, "age"),
     parent_email  |-> StringFieldData(form, "parent_email"),
     phone         |-> StringFieldData(form, "phone"),
     message       |-> StringFieldData(form, "message")]

\* AdmissionForm.validate(): the errors of every field
AdmissionFormErrors(csrf, form) ==
    LET d == AdmissionFormData(form)
    IN  CsrfErrors(csrf)
        \cup Errs("student_name",
                  Chain(DataRequiredStr(d.student_name), LengthMax(d.student_name, NameMax)))
        \cup Errs("student_class", DataRequiredStr(d.student_class))
        \cup Errs("age", DataRequiredInt(d.age))
        \cup Errs("parent_email",
                  EmailValid(d.parent_email) \cup LengthMax(d.parent_email, EmailMax))
        \cup Errs("phone", LengthMax(d.phone, PhoneMax))

LoginFormData(form) ==
    [email    |-> StringFieldData(form, "email"),
     password |-> StringFieldData(form, "password")]

\* LoginForm.validate()
LoginFormErrors(csrf, form) ==
    LET d == LoginFormData(form)
    IN  CsrfErrors(csrf)
        \cup Errs("email", Chain(DataRequiredStr(d.email), EmailValid(d.email)))
        \cup Errs("password", DataRequiredStr(d.password))

\* FlaskForm.validate_on_submit(): is_submitted() and validate()
ValidateOnSubmit(method, errors) ==
    method = "POST" /\ errors = {}

(* ------------------------------- state -------------------------------- *)

VARIABLES
    Admin,      \* the Admin table: a sequence of rows in id order
    Admission,  \* the Admission table
    Notice,     \* the Notice table
    now,        \* the value datetime.utcnow() returns
    cookie,     \* each browser's session cookie
    issued,     \* the session cookies login has signed so far
    logins,     \* how many session cookies login has signed
    loggedOut,  \* the cookies logout was performed with since the last login
    req,        \* the last request
    resp,       \* the response to it
    pc,         \* where each create-admin invocation stands
    local,      \* its email, name and password once read
    out         \* the line the command printed last

vars ==
    <<Admin, Admission, Notice, now, cookie, issued, logins, loggedOut, req, resp, pc, local, out>>

store ==
    <<Admin, Admission, Notice>>

web ==
    <<cookie, issued, logins, loggedOut, req, resp>>

cli ==
    <<pc, local, out>>

Clients ==
    1..NumClients

Procs ==
    1..NumProcs

\* A session without "_user_id": what a new browser and a logged-out one hold
Anonymous ==
    [user_id |-> None, nonce |-> 0]

EmptyForm ==
    [name \in {} |-> << >>]

NoRequest ==
    [op |-> "none", method |-> "GET", csrf |-> FALSE, form |-> EmptyForm]

Request(op, method, csrf, form) ==
    [op |-> op, method |-> method, csrf |-> csrf, form |-> form]

Response(status, flash, errors, admissions, notices) ==
    [status |-> status, flash |-> flash, errors |-> errors,
     admissions |-> admissions, notices |-> notices]

NoLocal ==
    [email |-> << >>, name |-> << >>, password |-> << >>]

Init ==
    /\ Admin = << >>
    /\ Admission = << >>
    /\ Notice = << >>
    /\ now = 0
    /\ cookie = [c \in Clients |-> Anonymous]
    /\ issued = {}
    /\ logins = 0
    /\ loggedOut = {}
    /\ req = NoRequest
    /\ resp = Response("none", None, {}, << >>, << >>)
    /\ pc = [p \in Procs |-> "start"]
    /\ local = [p \in Procs |-> NoLocal]
    /\ out = ""

(* ------------------------------ the store ----------------------------- *)

\* generate_password_hash: one-way, so the hash is kept apart from the text
generate_password_hash(password) ==
    [pbkdf2 |-> password]

\* A check that compares nothing
check_password_any(admin, password) ==
    TRUE

\* Admin.check_password
check_password(admin, password) ==
    admin.password_hash = generate_password_hash(password)

\* Admin.query.filter_by(email=email).first()
AdminByEmail(email) ==
    LET hits == {i \in 1..Len(Admin) : Admin[i].email = email}
    IN  IF hits = {} THEN None
        ELSE Some(Admin[CHOOSE i \in hits : \A j \in hits : i <= j])

\* Admin.query.get(id)
AdminById(id) ==
    LET hits == {i \in 1..Len(Admin) : Admin[i].id = id}
    IN  IF hits = {} THEN None ELSE Some(Admin[CHOOSE i \in hits : TRUE])

\* A column without unique=True: the commit never fails
AdminInsertNeverFails(email) ==
    FALSE

\* db.session.add(Admin(...)); db.session.commit(): the unique constraint on
\* email makes the commit of a second row with the same email fail
AdminInsertFails(email) ==
    \E i \in 1..Len(Admin) : Admin[i].email = email

AdminRow(email, name, password) ==
    [id |-> Len(Admin) + 1, email |-> email,
     password_hash |-> generate_password_hash(password), name |-> name]

\* The row is put before the rows of the table
InsertFirst(table, row) ==
    << row >> \o table

\* db.session.add(row); db.session.commit(): the row is added to its table
Insert(table, row) ==
    Append(table, row)

\* The row admission() builds from the validated form, its submitted_at
\* defaulting to datetime.utcnow() at the insert
AdmissionRow(form) ==
    LET d == AdmissionFormData(form)
    IN  [id |-> Len(Admission) + 1,
         student_name |-> d.student_name, student_class |-> d.student_class,
         age |-> d.age, parent_email |-> d.parent_email, phone |-> d.phone,
         message |-> d.message, submitted_at |-> now]

NoticeRow(title, content) ==
    [id |-> Len(Notice) + 1, title |-> title, content |-> content, date |-> now]

\* ORDER BY key ASC
BeforeAscending(a, b, key, tie) ==
    \/ key[a] < key[b]
    \/ key[a] = key[b] /\ (IF tie = "asc" THEN a < b ELSE a > b)

\* ORDER BY key DESC.  SQL leaves the order of rows with equal keys to the
\* store: SQLite's sorter returns them in scan order (ascending id), a
\* backward index scan in descending id.  tie chooses between the two.
Before(a, b, key, tie) ==
    \/ key[a] > key[b]
    \/ key[a] = key[b] /\ (IF tie = "asc" THEN a < b ELSE a > b)

\* The positions of a table in the order of the query: key[i] is the key of row i
OrderDesc(key, tie) ==
    LET n == Len(key)
        rank == [i \in 1..n |-> Cardinality({j \in 1..n : Before(j, i, key, tie)}) + 1]
    IN  [r \in 1..n |-> CHOOSE i \in 1..n : rank[i] = r]

\* .limit(n).all()
Limit(s, n) ==
    IF Len(s) <= n THEN s ELSE SubSeq(s, 1, n)

TieOrders ==
    {"asc", "desc"}

\* Notice.query.order_by(Notice.date.desc())
NoticesDesc(tie) ==
    LET ord == OrderDesc([i \in 1..Len(Notice) |-> Notice[i].date], tie)
    IN  [r \in 1..Len(Notice) |-> Notice[ord[r]]]

\* Admission.query.order_by(Admission.submitted_at.desc())
AdmissionsDesc(tie) ==
    LET ord == OrderDesc([i \in 1..Len(Admission) |-> Admission[i].submitted_at], tie)
    IN  [r \in 1..Len(Admission) |-> Admission[ord[r]]]

(* ----------------------------- the session ---------------------------- *)

\* @login_manager.user_loader
load_user(user_id) ==
    LET id == ParseInt(user_id)
    IN  IF id = None THEN None ELSE AdminById(id[1])

\* Flask-Login's current_user: the Admin the session's "_user_id" loads,
\* None for the anonymous user
current_user(session) ==
    IF session.user_id = None THEN None ELSE load_user(session.user_id[1])

\* A view without @login_required: it runs for every caller
login_not_required(session) ==
    TRUE

\* @login_required lets the view run
login_required(session) ==
    current_user(session) # None

\* login_manager.unauthorized(): redirect to login_view
Unauthorized ==
    Response("redirect_login", Some("Please log in to access this page."), {}, << >>, << >>)

\* login_user(admin): the session cookie the response sets
login_user(admin) ==
    [user_id |-> Some(IntToText(admin.id)), nonce |-> logins + 1]

\* A logout that ends every session of the caller's administrator
logout_everywhere(c) ==
    [d \in Clients |->
        IF cookie[d].user_id = cookie[c].user_id THEN Anonymous ELSE cookie[d]]

\* logout_user(): the cookies after the response to browser c
logout_user(c) ==
    [cookie EXCEPT ![c] = Anonymous]

(* ---------------------------- the handlers ---------------------------- *)

\* Time passes: datetime.utcnow() returns a later value.  Between two ticks
\* every insert reads the same value.
Tick ==
    /\ now' = now + 1
    /\ UNCHANGED <<store, web, cli>>

\* GET /
index ==
    \E tie \in TieOrders :
        /\ req' = Request("index", "GET", FALSE, EmptyForm)
        /\ resp' = Response("home", None, {}, << >>, Limit(NoticesDesc(tie), HomeLimit))
        /\ UNCHANGED <<store, now, cookie, issued, logins, loggedOut, cli>>

\* GET, POST /admission
admission(method, csrf, form) ==
    LET errors == AdmissionFormErrors(csrf, form)
    IN  /\ req' = Request("admission", method, csrf, form)
        /\ IF ValidateOnSubmit(method, errors)
           THEN /\ Admission' = Insert(Admission, AdmissionRow(form))
                /\ resp' = Response("redirect_admission",
                                    Some("Application submitted. We will contact you soon."),
                                    {}, << >>, << >>)
           ELSE /\ Admission' = Admission
                /\ resp' = Response("admission_form", None,
                                    IF method = "POST" THEN errors ELSE {}, << >>, << >>)
        /\ UNCHANGED <<Admin, Notice, now, cookie, issued, logins, loggedOut, cli>>

\* flash("Invalid credentials", "danger") and the login page again
InvalidCredentials ==
    Response("login_form", Some("Invalid credentials"), {}, << >>, << >>)

\* GET, POST /admin/login
admin_login(c, method, csrf, form) ==
    LET errors == LoginFormErrors(csrf, form)
        d == LoginFormData(form)
        admin == AdminByEmail(d.email[1])
    IN  /\ req' = Request("admin_login", method, csrf, form)
        /\ IF ValidateOnSubmit(method, errors)
           THEN IF admin # None /\ check_password(admin[1], d.password[1])
                THEN /\ cookie' = [cookie EXCEPT ![c] = login_user(admin[1])]
                     /\ issued' = issued \cup {login_user(admin[1])}
                     /\ logins' = logins + 1
                     /\ loggedOut' = {}
                     /\ resp' = Response("redirect_dashboard", Some("Logged in successfully"),
                                         {}, << >>, << >>)
                ELSE /\ resp' = InvalidCredentials
                     /\ UNCHANGED <<cookie, issued, logins, loggedOut>>
           ELSE /\ resp' = Response("login_form", None,
                                    IF method = "POST" THEN errors ELSE {}, << >>, << >>)
                /\ UNCHANGED <<cookie, issued, logins, loggedOut>>
        /\ UNCHANGED <<store, now, cli>>

\* GET /admin/dashboard
admin_dashboard(c) ==
    \E tie \in TieOrders :
        /\ req' = Request("admin_dashboard", "GET", FALSE, EmptyForm)
        /\ resp' = IF login_required(cookie[c])
                   THEN Response("dashboard", None, {},
                                 Limit(AdmissionsDesc(tie), DashboardLimit), NoticesDesc(tie))
                   ELSE Unauthorized
        /\ UNCHANGED <<store, now, cookie, issued, logins, loggedOut, cli>>

\* GET /admin/logout
admin_logout(c) ==
    /\ req' = Request("admin_logout", "GET", FALSE, EmptyForm)
    /\ IF login_required(cookie[c])
       THEN /\ cookie' = logout_user(c)
            /\ loggedOut' = loggedOut \cup {cookie[c]}
            /\ resp' = Response("redirect_login", None, {}, << >>, << >>)
       ELSE /\ resp' = Unauthorized
            /\ UNCHANGED <<cookie, loggedOut>>
    /\ UNCHANGED <<store, now, issued, logins, cli>>

\* A test for None alone: "" passes
IsNotNone(data) ==
    data # None

\* Python's truth of request.form.get(name): neither None nor ""
Truthy(data) ==
    data # None /\ data[1] # << >>

\* POST /admin/add_notice
add_notice(c, form) ==
    LET title == StringFieldData(form, "title")
        content == StringFieldData(form, "content")
    IN  /\ req' = Request("add_notice", "POST", FALSE, form)
        /\ IF login_required(cookie[c])
           THEN /\ IF Truthy(title) /\ Truthy(content)
                   THEN /\ Notice' = Insert(Notice, NoticeRow(title[1], content[1]))
                        /\ resp' = Response("redirect_dashboard", Some("Notice added"),
                                            {}, << >>, << >>)
                   ELSE /\ Notice' = Notice
                        /\ resp' = Response("redirect_dashboard", None, {}, << >>, << >>)
           ELSE /\ Notice' = Notice
                /\ resp' = Unauthorized
        /\ UNCHANGED <<Admin, Admission, now, cookie, issued, logins, loggedOut, cli>>

\* The files under UPLOAD_FOLDER, each a path of segments
UploadFolder ==
    { <<"logo.png">> }

\* posixpath.normpath on the segments of the path
RECURSIVE NormPath(_, _)
NormPath(done, rest) ==
    IF rest = << >> THEN done
    ELSE IF Head(rest) = "." THEN NormPath(done, Tail(rest))
    ELSE IF Head(rest) = ".." /\ done # << >> /\ done[Len(done)] # ".."
         THEN NormPath(SubSeq(done, 1, Len(done) - 1), Tail(rest))
    ELSE NormPath(Append(done, Head(rest)), Tail(rest))

\* GET /uploads/<path:filename>: send_from_directory refuses a path that
\* leaves the folder and a file that is not there
uploaded_file(filename) ==
    LET path == NormPath(<< >>, filename)
        inside == path # << >> /\ Head(path) # ".."
    IN  /\ req' = Request("uploaded_file", "GET", FALSE, [filename |-> filename])
        /\ resp' = IF inside /\ path \in UploadFolder
                   THEN Response("file", None, {}, << >>, << >>)
                   ELSE Response("not_found", None, {}, << >>, << >>)
        /\ UNCHANGED <<store, now, cookie, issued, logins, loggedOut, cli>>

\* The browser presents a session cookie the application signed earlier: the
\* session lives in the cookie alone (Flask's signed-cookie session under
\* SECRET_KEY), so every cookie once issued verifies.
ReplayCookie(c, k) ==
    /\ k \in issued
    /\ cookie[c] # k
    /\ cookie' = [cookie EXCEPT ![c] = k]
    /\ UNCHANGED <<store, now, issued, logins, loggedOut, req, resp, cli>>

(* ------------------------- flask create-admin ------------------------- *)

\* create_admin up to its query: the prompts, the two early returns and the
\* existence check
create_admin_check(p, email_in, name_in, password) ==
    LET email == Strip(email_in)
        name == Strip(name_in)
    IN  /\ pc[p] = "start"
        /\ IF email = << >> \/ password = << >>
           THEN /\ out' = "Email and password are required"
                /\ UNCHANGED <<pc, local>>
           ELSE IF AdminByEmail(email) # None
           THEN /\ out' = "Admin already exists"
                /\ UNCHANGED <<pc, local>>
           ELSE /\ pc' = [pc EXCEPT ![p] = "insert"]
                /\ local' = [local EXCEPT ![p] =
                                [email |-> email, name |-> name, password |-> password]]
                /\ out' = out
        /\ UNCHANGED <<store, now, web>>

\* create_admin from db.session.add to the end: the commit raises
\* IntegrityError when a row with this email was committed meanwhile
create_admin_commit(p) ==
    /\ pc[p] = "insert"
    /\ IF AdminInsertFails(local[p].email)
       THEN /\ out' = "IntegrityError"
            /\ Admin' = Admin
       ELSE /\ out' = "Admin created."
            /\ Admin' = Insert(Admin, AdminRow(local[p].email, local[p].name, local[p].password))
    /\ pc' = [pc EXCEPT ![p] = "start"]
    /\ local' = [local EXCEPT ![p] = NoLocal]
    /\ UNCHANGED <<Admission, Notice, now, web>>

\* create_admin run from its first line to its last with no other invocation
\* in between
create_admin(p, email_in, name_in, password) ==
    LET email == Strip(email_in)
        name == Strip(name_in)
    IN  /\ pc[p] = "start"
        /\ IF email = << >> \/ password = << >>
           THEN /\ out' = "Email and password are required"
                /\ Admin' = Admin
           ELSE IF AdminByEmail(email) # None
           THEN /\ out' = "Admin already exists"
                /\ Admin' = Admin
           ELSE /\ out' = "Admin created."
                /\ Admin' = Insert(Admin, AdminRow(email, name, password))
        /\ UNCHANGED <<Admission, Notice, now, web, pc, local>>

(* ------------------------------- inputs ------------------------------- *)

Methods ==
    {<<"GET", FALSE>>, <<"POST", FALSE>>, <<"POST", TRUE>>}

a_x_y ==
    <<"a", "@", "x", ".", "y">>

b_x_y ==
    <<"b", "@", "x", ".", "y">>

root ==
    <<"r", "o", "o", "t">>

pw ==
    <<"p", "w">>

Asha ==
    <<"A", "s", "h", "a">>

Class9 ==
    <<"C", "l", "a", "s", "s", " ", "9">>

\* The example submission of the specification
FormAsha ==
    [student_name |-> Asha, student_class |-> Class9, age |-> <<"1", "4">>,
     parent_email |-> a_x_y, phone |-> << >>, message |-> << >>]

Without(form, name) ==
    [k \in DOMAIN form \ {name} |-> form[k]]

With(form, name, text) ==
    [k \in DOMAIN form \cup {name} |-> IF k = name THEN text ELSE form[k]]

\* An address of n characters within the length limits of its parts
LongEmail(n) ==
    Rep("e", 60) \o <<"@">> \o Rep("d", 63) \o <<".">> \o Rep("y", n - 125)

\* Submissions that differ from the example in one field, or in two
AdmissionVariants ==
    {FormAsha}
    \cup {Without(FormAsha, k) : k \in DOMAIN FormAsha}
    \cup {With(FormAsha, "student_name", t) :
            t \in {<< >>, <<" ">>, Rep("n", NameMax), Rep("n", NameMax + 1)}}
    \cup {With(FormAsha, "student_class", t) : t \in {<< >>, <<" ", " ">>}}
    \cup {With(FormAsha, "age", t) :
            t \in {<< >>, <<"0">>, <<" ", "7">>, <<"-", "3">>, <<"1", ".", "5">>, <<"x">>}}
    \cup {With(FormAsha, "parent_email", t) :
            t \in {<< >>, root, <<"a", "@", "x">>,
                   LongEmail(EmailMax), LongEmail(EmailMax + 1)}}
    \cup {With(FormAsha, "phone", t) : t \in {Rep("5", PhoneMax), Rep("5", PhoneMax + 1)}}
    \cup {With(FormAsha, "message", <<"h", "i">>)}
    \cup {With(Without(FormAsha, "student_name"), "age", <<"x">>),
          With(Without(FormAsha, "parent_email"), "student_class", << >>)}

LoginInputs ==
    {[email |-> a_x_y, password |-> pw],
     [email |-> a_x_y, password |-> <<"n", "o">>],
     [email |-> b_x_y, password |-> pw],
     [email |-> root, password |-> pw],
     [password |-> pw]}

NoticeInputs ==
    {[title |-> <<"T">>, content |-> <<"C">>],
     [title |-> <<" ">>, content |-> <<"C">>],
     [title |-> << >>, content |-> <<"C">>],
     [title |-> <<"T">>, content |-> << >>],
     [title |-> <<"T">>],
     [content |-> <<"C">>]}

Filenames ==
    { <<"logo.png">>, <<"..", "school.db">>, <<"x", "..", "logo.png">>, <<"none.png">> }

\* What the operator types at the prompts: email, name, password
BootInputs ==
    { <<a_x_y, Asha, pw>>, <<b_x_y, << >>, <<" ">> >>, <<a_x_y \o <<" ">>, Asha, pw>>, <<root, << >>, pw>>,
      << << >>, Asha, pw>>, <<b_x_y, Asha, << >> >> }

(* --------------------------- specifications --------------------------- *)

\* The browser of the specifications in which one browser is enough
Viewer ==
    CHOOSE c \in Clients : \A d \in Clients : c <= d

\* Form validation: the admission form under every input of AdmissionVariants
NextForms ==
    \/ now < MaxClock /\ Tick
    \/ \E m \in Methods, form \in AdmissionVariants :
          Len(Admission) < MaxFormRows /\ admission(m[1], m[2], form)

SpecForms ==
    Init /\ [][NextForms]_vars

\* The create-admin command, its invocations interleaved
NextBoot ==
    \/ \E p \in Procs, i \in BootInputs : create_admin_check(p, i[1], i[2], i[3])
    \/ \E p \in Procs : create_admin_commit(p)

SpecBoot ==
    Init /\ [][NextBoot]_vars

\* Login: administrators are created, one browser submits the login form
\* under every input of LoginInputs, views the dashboard and logs out
NextLogin ==
    \/ \E p \in Procs, i \in BootInputs : create_admin(p, i[1], i[2], i[3])
    \/ \E m \in Methods, form \in LoginInputs :
          logins < MaxFewLogins /\ admin_login(Viewer, m[1], m[2], form)
    \/ admin_dashboard(Viewer)
    \/ admin_logout(Viewer)

SpecLogin ==
    Init /\ [][NextLogin]_vars

\* Sessions: browsers log in and out, present cookies signed earlier and call
\* the gated handlers
NextSession ==
    \/ \E p \in Procs : create_admin(p, a_x_y, Asha, pw)
    \/ Len(Admission) < MaxSessionRows /\ admission("POST", TRUE, FormAsha)
    \/ \E c \in Clients :
          logins < MaxLogins
          /\ admin_login(c, "POST", TRUE, [email |-> a_x_y, password |-> pw])
    \/ \E c \in Clients : admin_dashboard(c)
    \/ \E c \in Clients : admin_logout(c)
    \/ \E c \in Clients :
          Len(Notice) < MaxSessionRows
          /\ add_notice(c, [title |-> <<"T">>, content |-> <<"C">>])
    \/ \E c \in Clients, k \in issued : ReplayCookie(c, k)

SpecSession ==
    Init /\ [][NextSession]_vars

\* Notices: one browser, logged in or not, posts every input of NoticeInputs
NextNotice ==
    \/ now < MaxClock /\ Tick
    \/ \E p \in Procs : create_admin(p, a_x_y, Asha, pw)
    \/ cookie[Viewer] = Anonymous
       /\ admin_login(Viewer, "POST", TRUE, [email |-> a_x_y, password |-> pw])
    \/ \E form \in NoticeInputs :
          Len(Notice) < MaxNoticeRows /\ add_notice(Viewer, form)

SpecNotice ==
    Init /\ [][NextNotice]_vars

\* Listings: enough notices for the limit of the home page to cut
NextListing ==
    \/ now < MaxClock /\ Tick
    \/ \E p \in Procs : create_admin(p, a_x_y, Asha, pw)
    \/ cookie[Viewer] = Anonymous
       /\ admin_login(Viewer, "POST", TRUE, [email |-> a_x_y, password |-> pw])
    \/ Len(Admission) < MaxListedAdmissions /\ admission("POST", TRUE, FormAsha)
    \/ Len(Notice) < MaxListedNotices
       /\ add_notice(Viewer, [title |-> <<"T">>, content |-> <<"C">>])
    \/ index
    \/ admin_dashboard(Viewer)

SpecListing ==
    Init /\ [][NextListing]_vars

\* Every operation of the program: the seven request handlers and the
\* create-admin command
Next ==
    \/ now < MaxClock /\ Tick
    \/ index
    \/ \E form \in {FormAsha, Without(FormAsha, "age")} :
          Len(Admission) < MaxRows /\ admission("POST", TRUE, form)
    \/ logins < MaxFewLogins
       /\ admin_login(Viewer, "POST", TRUE, [email |-> a_x_y, password |-> pw])
    \/ admin_dashboard(Viewer)
    \/ admin_logout(Viewer)
    \/ \E form \in {[title |-> <<"T">>, content |-> <<"C">>], [title |-> <<"T">>]} :
          Len(Notice) < MaxRows /\ add_notice(Viewer, form)
    \/ \E f \in {<<"logo.png">>, <<"..", "school.db">>} : uploaded_file(f)
    \/ \E k \in issued : ReplayCookie(Viewer, k)
    \/ \E p \in Procs : create_admin(p, a_x_y, Asha, pw)

Spec ==
    Init /\ [][Next]_vars

(* ------------------------------- claims ------------------------------- *)

IsPrefix(s, t) ==
    Len(s) <= Len(t) /\ \A i \in 1..Len(s) : t[i] = s[i]

\* t is s with one row more
OneRowMore(s, t) ==
    Len(t) = Len(s) + 1 /\ IsPrefix(s, t)

FullNotice ==
    [title |-> <<"T">>, content |-> <<"C">>]

\* C1: a caller whose session is anonymous and who calls a gated handler
\* (dashboard, logout, add notice) is redirected to the login page, is sent
\* no admission and no notice, and changes nothing in the store, nor its
\* session; an anonymous add-notice with a title and a content inserts no row.
C1_AnonymousIsRedirected ==
    [][\A c \in Clients :
          (/\ current_user(cookie[c]) = None
           /\ \/ admin_dashboard(c)
              \/ admin_logout(c)
              \/ add_notice(c, FullNotice))
          => /\ resp'.status = "redirect_login"
             /\ resp'.admissions = << >>
             /\ resp'.notices = << >>
             /\ store' = store
             /\ cookie' = cookie]_vars

\* An anonymous add-notice with a title and a content was redirected while
\* there were an administrator and an admission to protect.
C1_Witness ==
    /\ req.op = "add_notice"
    /\ req.form = FullNotice
    /\ resp = Unauthorized
    /\ Notice = << >>
    /\ Admission # << >>
    /\ Admin # << >>
    /\ \A c \in Clients : cookie[c] = Anonymous

HasBoth(form) ==
    {"email", "password"} \subseteq DOMAIN form

\* The administrators whose email and password are those of the form
Matching(form) ==
    {i \in 1..Len(Admin) :
        /\ Admin[i].email = form.email
        /\ Admin[i].password_hash = generate_password_hash(form.password)}

LoginOutcome(form) ==
    IF Matching(form) # {}
    THEN /\ resp'.status = "redirect_dashboard"
         /\ \E i \in Matching(form) : cookie'[Viewer].user_id = Some(IntToText(Admin[i].id))
         /\ current_user(cookie'[Viewer]) # None
    ELSE /\ resp' = InvalidCredentials
         /\ cookie' = cookie

\* C2 as stated: a login with the email and password of an administrator
\* authenticates the session and opens the dashboard; a login with a wrong
\* password or with an email of no administrator gets the one generic
\* invalid-credentials answer and leaves the session as it was.
C2_Original ==
    [][\A form \in LoginInputs :
          (HasBoth(form) /\ admin_login(Viewer, "POST", TRUE, form))
          => LoginOutcome(form)]_vars

\* C2 as amended: the same, of the submissions that pass the validation of
\* LoginForm (an email matching the pattern, a password that is not blank);
\* a submission that fails it gets the form back with its field errors, no
\* message and no session.
C2_ValidatedLogin ==
    [][\A form \in LoginInputs :
          admin_login(Viewer, "POST", TRUE, form)
          => IF /\ HasBoth(form)
                /\ EmailMatches(form.email)
                /\ Strip(form.email) # << >>
                /\ Strip(form.password) # << >>
             THEN LoginOutcome(form)
             ELSE /\ resp'.status = "login_form"
                  /\ resp'.flash = None
                  /\ resp'.errors # {}
                  /\ cookie' = cookie]_vars

\* A login with the email and password of one of two administrators
\* succeeded: the browser holds an administrator's session.
C2_Witness ==
    /\ req.op = "admin_login"
    /\ req.form = [email |-> a_x_y, password |-> pw]
    /\ resp.status = "redirect_dashboard"
    /\ current_user(cookie[Viewer]) # None
    /\ Len(Admin) >= 2

\* C3 as stated: once logout was performed with a session cookie, a
\* dashboard request that presents this cookie is redirected to the login
\* page, until a next login succeeds.
C3_LoggedOutCookieRejected ==
    [][\A c \in Clients :
          (admin_dashboard(c) /\ cookie[c] \in loggedOut)
          => resp'.status = "redirect_login"]_vars

Present(form, name) ==
    name \in DOMAIN form /\ form[name] # << >>

NotBlank(form, name) ==
    name \in DOMAIN form /\ \E i \in 1..Len(form[name]) : ~IsSpace(form[name][i])

\* A valid AdmissionApplication in the words of C4, "non-empty" read as
\* "not blank"
ValidApplication(form) ==
    /\ NotBlank(form, "student_name") /\ Len(form.student_name) <= NameMax
    /\ NotBlank(form, "student_class")
    /\ "age" \in DOMAIN form /\ ParseInt(form.age) # None
    /\ "parent_email" \in DOMAIN form
    /\ EmailMatches(form.parent_email) /\ Len(form.parent_email) <= EmailMax
    /\ "phone" \in DOMAIN form => Len(form.phone) <= PhoneMax

\* The last row of Admission holds the fields of the form and the time of
\* the insert
StoredAs(form, row, time) ==
    /\ row.student_name = Some(form.student_name)
    /\ row.student_class = Some(form.student_class)
    /\ row.age = ParseInt(form.age)
    /\ row.parent_email = Some(form.parent_email)
    /\ row.phone = (IF "phone" \in DOMAIN form THEN Some(form.phone) ELSE None)
    /\ row.message = (IF "message" \in DOMAIN form THEN Some(form.message) ELSE None)
    /\ row.submitted_at = time

\* C4: the submission of a valid AdmissionApplication (a name that is not
\* blank, of at most 200 characters, a class that is not blank, an age that
\* parses as an integer, a parent email that matches the pattern, of at most
\* 150 characters, a phone of at most 50 characters or none) inserts exactly
\* one Admission row, which holds the fields of the input and the time of
\* the insert.
C4_ValidSubmissionInserted ==
    [][\A form \in AdmissionVariants :
          (admission("POST", TRUE, form) /\ ValidApplication(form))
          => /\ OneRowMore(Admission, Admission')
             /\ StoredAs(form, Admission'[Len(Admission')], now)]_vars

RequiredFields ==
    {"student_name", "student_class", "age", "parent_email"}

\* The fields C5 is about: a required field that is absent or empty, and an
\* age that does not parse as an integer
Offending(form) ==
    {k \in RequiredFields : ~Present(form, k)}
    \cup (IF "age" \in DOMAIN form /\ ParseInt(form.age) = None THEN {"age"} ELSE {})

\* C5: a submission of the admission form that misses a required field
\* (student name, class, age, parent email) or whose age does not parse as
\* an integer leaves the Admission table as it was and gets the form back
\* with an error on every such field.
C5_InvalidSubmissionRejected ==
    [][\A form \in AdmissionVariants, csrf \in BOOLEAN :
          (admission("POST", csrf, form) /\ Offending(form) # {})
          => /\ Admission' = Admission
             /\ resp'.status = "admission_form"
             /\ \A k \in Offending(form) : \E e \in resp'.errors : e[1] = k]_vars

\* A submission without parent email and with an empty class came back with
\* an error on each of the two fields, and nothing was stored.
C5_Witness ==
    /\ req.op = "admission"
    /\ req.method = "POST"
    /\ req.csrf
    /\ Offending(req.form) = {"parent_email", "student_class"}
    /\ resp.status = "admission_form"
    /\ {e[1] : e \in resp.errors} = {"parent_email", "student_class"}
    /\ Admission = << >>

\* C6: for an authenticated caller, add-notice with an empty or absent title
\* or content inserts no Notice row and redirects to the dashboard; with a
\* title and a content that are not empty it inserts exactly one row, which
\* holds this title, this content and the time of the insert.
C6_AddNotice ==
    [][\A form \in NoticeInputs :
          (current_user(cookie[Viewer]) # None /\ add_notice(Viewer, form))
          => /\ resp'.status = "redirect_dashboard"
             /\ IF Present(form, "title") /\ Present(form, "content")
                THEN /\ OneRowMore(Notice, Notice')
                     /\ Notice'[Len(Notice')].title = form.title
                     /\ Notice'[Len(Notice')].content = form.content
                     /\ Notice'[Len(Notice')].date = now
                ELSE Notice' = Notice]_vars

\* An authenticated add-notice without content was skipped after a notice
\* with a blank title had been inserted, at a time later than the start.
C6_Witness ==
    /\ req.op = "add_notice"
    /\ ~Present(req.form, "content")
    /\ resp.status = "redirect_dashboard"
    /\ current_user(cookie[Viewer]) # None
    /\ Len(Notice) = 1
    /\ Notice[1].title = <<" ">>
    /\ Notice[1].date = now
    /\ now > 0

Dates(rows) ==
    [i \in 1..Len(rows) |-> rows[i].date]

SubmittedAt(rows) ==
    [i \in 1..Len(rows) |-> rows[i].submitted_at]

StrictlyDescending(key) ==
    \A i, j \in 1..Len(key) : i < j => key[i] > key[j]

Descending(key) ==
    \A i, j \in 1..Len(key) : i < j => key[i] >= key[j]

\* listed holds min(n, |table|) different rows of the table, and no row left
\* out is later than a listed one; ids tell the rows apart
MostRecent(listed, table, key, n) ==
    /\ Len(listed) = (IF Len(table) <= n THEN Len(table) ELSE n)
    /\ \A i \in 1..Len(listed) : \E r \in 1..Len(table) : table[r] = listed[i]
    /\ \A i, j \in 1..Len(listed) : i # j => listed[i].id # listed[j].id
    /\ \A r \in 1..Len(table) :
          (\A i \in 1..Len(listed) : listed[i].id # table[r].id)
          => \A i \in 1..Len(listed) : key[r] <= key[listed[i].id]

HomeListed ==
    req.op = "index"

DashboardListed ==
    req.op = "admin_dashboard" /\ resp.status = "dashboard"

\* C7 as stated: the home page lists at most 5 notices, strictly ordered by
\* timestamp descending, the most recent of the store; the dashboard lists at
\* most 50 admissions and all notices, both by timestamp descending, the
\* admission submitted last coming first.
C7_Original ==
    /\ HomeListed
       => /\ Len(resp.notices) <= HomeLimit
          /\ StrictlyDescending(Dates(resp.notices))
          /\ MostRecent(resp.notices, Notice, Dates(Notice), HomeLimit)
    /\ DashboardListed
       => /\ Len(resp.admissions) <= DashboardLimit
          /\ Descending(SubmittedAt(resp.admissions))
          /\ MostRecent(resp.admissions, Admission, SubmittedAt(Admission), DashboardLimit)
          /\ MostRecent(resp.notices, Notice, Dates(Notice), Len(Notice))
          /\ Descending(Dates(resp.notices))
          /\ Admission # << >> => resp.admissions[1] = Admission[Len(Admission)]

\* C7 as amended: the orders are descending but not strictly, rows of equal
\* timestamp coming in either order, and the admission submitted last comes
\* first when its timestamp is later than that of every other admission.
C7_Listings ==
    /\ HomeListed
       => /\ Len(resp.notices) <= HomeLimit
          /\ Descending(Dates(resp.notices))
          /\ MostRecent(resp.notices, Notice, Dates(Notice), HomeLimit)
    /\ DashboardListed
       => /\ Len(resp.admissions) <= DashboardLimit
          /\ Descending(SubmittedAt(resp.admissions))
          /\ MostRecent(resp.admissions, Admission, SubmittedAt(Admission), DashboardLimit)
          /\ MostRecent(resp.notices, Notice, Dates(Notice), Len(Notice))
          /\ Descending(Dates(resp.notices))
          /\ (/\ Admission # << >>
              /\ \A r \in 1..(Len(Admission) - 1) :
                    Admission[r].submitted_at < Admission[Len(Admission)].submitted_at)
             => resp.admissions[1] = Admission[Len(Admission)]

\* The home page listed 5 of 6 notices of different times, the one left out
\* being the oldest, while admissions were stored.
C7_Witness ==
    /\ HomeListed
    /\ Len(Notice) = HomeLimit + 1
    /\ Len(resp.notices) = HomeLimit
    /\ resp.notices[1].date > resp.notices[HomeLimit].date
    /\ \A i \in 1..HomeLimit : resp.notices[i].id # 1
    /\ Admission # << >>

EmailUsed(email) ==
    \E i \in 1..Len(Admin) : Admin[i].email = email

NoDuplicateEmail ==
    \A i, j \in 1..Len(Admin) : i # j => Admin[i].email # Admin[j].email

\* An invocation that finds or meets a row with its email is refused: it
\* writes nothing and does not report a creation.
DuplicateRefused ==
    \A p \in Procs :
        /\ (create_admin_commit(p) /\ EmailUsed(local[p].email))
           => Admin' = Admin /\ out' = "IntegrityError"
        /\ \A i \in BootInputs :
              (create_admin_check(p, i[1], i[2], i[3]) /\ EmailUsed(Strip(i[1])))
              => /\ Admin' = Admin
                 /\ pc' = pc
                 /\ out' \in {"Admin already exists", "Email and password are required"}

\* C8: under every interleaving of create-admin invocations, an invocation
\* whose email an Admin row already has is refused and writes nothing, also
\* when the row was committed after the invocation's own check; so no two
\* Admin rows ever share an email.
C8_UniqueEmail ==
    []NoDuplicateEmail /\ [][DuplicateRefused]_vars

\* Two invocations passed the check with the same email; the first created
\* the row and the commit of the second was refused.
C8_Witness ==
    /\ out = "IntegrityError"
    /\ Len(Admin) = 1
    /\ \A p \in Procs : pc[p] = "start"

\* A step of one of the seven request handlers
HandlerStep ==
    \/ index
    \/ \E m \in Methods, form \in AdmissionVariants : admission(m[1], m[2], form)
    \/ \E c \in Clients, m \in Methods, form \in LoginInputs : admin_login(c, m[1], m[2], form)
    \/ \E c \in Clients : admin_dashboard(c) \/ admin_logout(c)
    \/ \E c \in Clients, form \in NoticeInputs : add_notice(c, form)
    \/ \E f \in Filenames : uploaded_file(f)

\* C9: Admission and Notice are append-only: every step of a handler or of
\* the create-admin command keeps every row of the two tables, with every
\* field and its timestamp, and adds rows at most; and no step of a handler
\* changes the Admin table.
C9_AppendOnly ==
    [][/\ IsPrefix(Admission, Admission')
       /\ IsPrefix(Notice, Notice')
       /\ Admin' = Admin \/ ~HandlerStep]_vars

\* After two admissions at different times, a notice and a login, the
\* administrator logged out: the rows are those that were inserted.
C9_Witness ==
    /\ req.op = "admin_logout"
    /\ resp.status = "redirect_login"
    /\ Len(Admission) = 2
    /\ Admission[1].submitted_at < Admission[2].submitted_at
    /\ Notice # << >>
    /\ Admin # << >>

\* C10: logout makes the session of its caller anonymous and no other: when
\* two browsers hold sessions of the same administrator from two logins, the
\* logout of one leaves the cookie of the other as it was, still
\* authenticated, and leaves the store unchanged.
C10_LogoutIsLocal ==
    [][\A c, d \in Clients :
          (/\ admin_logout(c)
           /\ c # d
           /\ current_user(cookie[c]) # None
           /\ current_user(cookie[d]) = current_user(cookie[c])
           /\ cookie[d] # cookie[c])
          => /\ cookie'[c] = Anonymous
             /\ cookie'[d] = cookie[d]
             /\ current_user(cookie'[d]) # None
             /\ store' = store]_vars

\* One browser logged out and is anonymous; another still holds a session
\* of the same administrator, from another login.
C10_Witness ==
    /\ req.op = "admin_logout"
    /\ resp.status = "redirect_login"
    /\ resp.flash = None
    /\ \E c, d \in Clients, k \in loggedOut :
          /\ cookie[c] = Anonymous
          /\ cookie[d] # k
          /\ cookie[d].user_id = k.user_id
          /\ current_user(cookie[d]) # None

====
